---- MODULE Spec2Model ----
(***************************************************************************)
(* Model of src/bot.py: a Flask service that stores the extracted text of  *)
(* uploaded documents in the process-wide dict loaded_documents and sends  *)
(* one of them, with a question, to a remote completion API.               *)
(*                                                                         *)
(* File names, document ids and keys are sequences of one-character        *)
(* strings, so that allowed_file, secure_filename and the endswith tests   *)
(* of upload_document are computed on the characters the way the code      *)
(* computes them.  The upload directory is a case-sensitive file system    *)
(* (a function from stored names to file contents) that starts empty.      *)
(*                                                                         *)
(* State of the program:                                                   *)
(*   loaded_documents  the dict of line 32, in insertion order             *)
(*   disk              the files of UPLOAD_FOLDER                          *)
(*   chatReq           the chat request a thread is serving, with the line *)
(*                     it has reached and its locals                       *)
(*   resp              the response of the request that completed last,    *)
(*                     together with the inputs of that request            *)
(* History, written by the actions and read only by the properties:        *)
(*   firstKey          the key inserted first since the last clear         *)
(*   stored            every <<key, text>> an upload has stored            *)
(*   nUploads          the number of upload requests so far                *)
(*                                                                         *)
(* Spec serves the requests one at a time; SpecRace lets uploads, listings *)
(* and clears run between the lines of a chat request, as the threaded     *)
(* server of app.run does.                                                 *)
(***************************************************************************)
EXTENDS Integers, Sequences, FiniteSets, TLC

VARIABLES loaded_documents, disk, chatReq, resp, firstKey, stored, nUploads

vars == <<loaded_documents, disk, chatReq, resp, firstKey, stored, nUploads>>

(***************************************************************************)
(* Bounds                                                                  *)
(***************************************************************************)
MaxUploads == 3

(***************************************************************************)
(* Configuration (src/bot.py 17-22)                                        *)
(***************************************************************************)
ALLOWED_EXTENSIONS == { <<"d","o","c","x">>, <<"t","x","t">>, <<"p","d","f">> }

MAX_CONTENT_LENGTH == 50 * 1024 * 1024

(***************************************************************************)
(* Characters and Python string methods                                    *)
(***************************************************************************)
\* "U+65E5" stands for one non-ASCII character with no ASCII decomposition.
NonAscii == { "U+65E5" }

LowerChar(c) ==
  CASE c = "E" -> "e"
    [] c = "T" -> "t"
    [] c = "X" -> "x"
    [] OTHER -> c

\* str.lower()
lower(s) == [i \in 1..Len(s) |-> LowerChar(s[i])]

\* '.' in filename
HasDot(s) == \E i \in 1..Len(s) : s[i] = "."

LastDot(s) == CHOOSE i \in 1..Len(s) : s[i] = "." /\ \A j \in (i+1)..Len(s) : s[j] # "."

\* filename.rsplit('.', 1)[1]
rsplit1(s) == SubSeq(s, LastDot(s) + 1, Len(s))

\* str.endswith(suffix)
endswith(s, suf) == Len(s) >= Len(suf) /\ SubSeq(s, Len(s) - Len(suf) + 1, Len(s)) = suf

\* allowed_file without the extension test
allowed_file_anydot(filename) == HasDot(filename)

\* src/bot.py 34-35
allowed_file(filename) ==
  HasDot(filename) /\ lower(rsplit1(filename)) \in ALLOWED_EXTENSIONS

(***************************************************************************)
(* werkzeug.utils.secure_filename, called at src/bot.py 90                 *)
(***************************************************************************)
IsSpace(c) == c = " "

\* [A-Za-z0-9_.-] over the characters of the model
SafeChar(c) == c \notin NonAscii /\ c # "/" /\ c # " "

DropNonAscii(s) == SelectSeq(s, LAMBDA c : c \notin NonAscii)

ReplaceSep(s) == [i \in 1..Len(s) |-> IF s[i] = "/" THEN " " ELSE s[i]]

RECURSIVE LStrip(_, _)
LStrip(s, chars) ==
  IF s # <<>> /\ Head(s) \in chars THEN LStrip(Tail(s), chars) ELSE s

RECURSIVE RStrip(_, _)
RStrip(s, chars) ==
  IF s # <<>> /\ s[Len(s)] \in chars THEN RStrip(SubSeq(s, 1, Len(s) - 1), chars) ELSE s

Strip(s, chars) == RStrip(LStrip(s, chars), chars)

\* "_".join(s.split()) for s without leading or trailing white space
RECURSIVE JoinRuns(_)
JoinRuns(s) ==
  IF s = <<>> THEN <<>>
  ELSE IF IsSpace(Head(s)) THEN <<"_">> \o JoinRuns(LStrip(s, {" "}))
  ELSE <<Head(s)>> \o JoinRuns(Tail(s))

SplitJoin(s) == JoinRuns(Strip(s, {" "}))

secure_filename(filename) ==
  Strip(SelectSeq(SplitJoin(ReplaceSep(DropNonAscii(filename))), SafeChar), {".", "_"})

(***************************************************************************)
(* File contents and the text extractors (src/bot.py 37-62)                *)
(***************************************************************************)
\* What the bytes of a file really are, whatever the file is called: a
\* word-processing document, a PDF (both binary), or UTF-8 text.
ErrDoc == <<"Error reading document:", "reason">>

ErrPdf == <<"Error reading PDF:", "reason">>

Exists(d, path) == path \in DOMAIN d

extract_text_from_docx(d, file_path) ==
  IF Exists(d, file_path) /\ d[file_path].kind = "docx"
  THEN <<"paragraphs", d[file_path].id>>
  ELSE ErrDoc

extract_text_from_txt(d, file_path) ==
  IF Exists(d, file_path) /\ d[file_path].kind = "txt"
  THEN <<"utf8", d[file_path].id>>
  ELSE ErrDoc

\* extract_text_from_pdf with the error text of the other extractors
extract_text_from_pdf_raw(d, file_path) ==
  IF Exists(d, file_path) /\ d[file_path].kind = "pdf"
  THEN <<"pages", d[file_path].id>>
  ELSE ErrDoc

extract_text_from_pdf(d, file_path) ==
  IF Exists(d, file_path) /\ d[file_path].kind = "pdf"
  THEN <<"pages", d[file_path].id>>
  ELSE ErrPdf

(***************************************************************************)
(* The ordered dict loaded_documents: a sequence of [key, text] entries in *)
(* insertion order (src/bot.py 32)                                         *)
(***************************************************************************)
Keys(dct) == { dct[i].key : i \in 1..Len(dct) }

IndexOf(dct, k) == CHOOSE i \in 1..Len(dct) : dct[i].key = k

\* loaded_documents[k]
DictGet(dct, k) == dct[IndexOf(dct, k)].text

\* list(loaded_documents.keys())
DictKeys(dct) == [i \in 1..Len(dct) |-> dct[i].key]

\* list(loaded_documents.values())
DictValues(dct) == [i \in 1..Len(dct) |-> dct[i].text]

\* An assignment that moves an existing key to the end
DictSetMoveToEnd(dct, k, v) ==
  Append(SelectSeq(dct, LAMBDA e : e.key # k), [key |-> k, text |-> v])

\* An assignment that drops every other key
DictSetOnly(dct, k, v) == << [key |-> k, text |-> v] >>

\* loaded_documents[k] = v: an existing key keeps its position
DictSet(dct, k, v) ==
  IF k \in Keys(dct)
  THEN [i \in 1..Len(dct) |-> IF dct[i].key = k THEN [key |-> k, text |-> v] ELSE dct[i]]
  ELSE Append(dct, [key |-> k, text |-> v])

\* loaded_documents.clear()
DictClear(dct) == <<>>

(***************************************************************************)
(* Requests and responses                                                  *)
(***************************************************************************)
\* document_id absent from the JSON body (Python None)
NoneId == <<"None">>

NoContent == [kind |-> "none", id |-> ""]

DOCX == <<".", "d", "o", "c", "x">>

PDF == <<".", "p", "d", "f">>

UPPER_TXT == <<".", "T", "X", "T">>

DocxBytes == [kind |-> "docx", id |-> "d1"]

PdfBytes == [kind |-> "pdf", id |-> "p1"]

TxtBytes == [kind |-> "txt", id |-> "t1"]

File(name, bytes) == [filename |-> name, content |-> bytes]

\* File names a client may send: plain ones, one with an upper-case
\* extension, one with a path separator, one whose stem is a non-ASCII
\* character, and three that validation rejects
FileNames ==
  { <<"r">> \o DOCX, <<"r">> \o PDF, <<"r">> \o UPPER_TXT,
    <<"/", "r">> \o PDF, <<"U+65E5">> \o PDF,
    <<"r", ".", "E", "X", "E">>, <<"r">>, <<>> }

\* The multipart field "file" of an upload request: absent, or a file name
\* with the bytes sent under it.  Every accepted name is sent with bytes of
\* the format it announces and with bytes of another format.
NoPart == File(<<>>, NoContent)

Parts ==
  { NoPart,
    File(<<"r">> \o DOCX, DocxBytes), File(<<"r">> \o DOCX, PdfBytes),
    File(<<"r">> \o PDF, PdfBytes), File(<<"r">> \o PDF, TxtBytes),
    File(<<"r">> \o UPPER_TXT, TxtBytes), File(<<"r">> \o UPPER_TXT, PdfBytes),
    File(<<"/", "r">> \o PDF, PdfBytes), File(<<"/", "r">> \o PDF, TxtBytes),
    File(<<"U+65E5">> \o PDF, PdfBytes), File(<<"U+65E5">> \o PDF, TxtBytes),
    File(<<"r", ".", "E", "X", "E">>, TxtBytes),
    File(<<"r">>, TxtBytes), File(<<>>, TxtBytes) }

\* Upload requests: within the size limit and saved; over the size limit;
\* within the limit with a file.save that fails (OSError)
UploadRequests ==
  [file : Parts, length : {MAX_CONTENT_LENGTH}, saveOk : {TRUE}]
    \cup [file : { File(<<"r">> \o PDF, PdfBytes), File(<<"r">> \o PDF, TxtBytes),
                   File(<<"r", ".", "E", "X", "E">>, TxtBytes) },
          length : {MAX_CONTENT_LENGTH + 1}, saveOk : {TRUE}]
    \cup [file : { File(<<"r">> \o PDF, PdfBytes), File(<<"r">> \o PDF, TxtBytes) },
          length : {MAX_CONTENT_LENGTH}, saveOk : {FALSE}]

Messages == { "", "hi" }

DocIds == { NoneId, <<>>, <<"z">>, <<"r">> \o DOCX, <<"r">> \o PDF, <<"p", "d", "f">> }

\* Chat requests: a question with every document_id, answered or refused
\* by the remote API; an empty message
ChatRequests ==
  [message : {"hi"}, document_id : DocIds, apiOk : BOOLEAN]
    \cup [message : {""}, document_id : {NoneId, <<"r">> \o DOCX}, apiOk : {TRUE}]

\* The response of the request that completed last, with its inputs
NoResp ==
  [ op |-> "none", status |-> 0, error |-> "",
    hasFile |-> FALSE, filename |-> <<>>, content |-> NoContent, length |-> 0,
    saveOk |-> FALSE,
    key |-> <<>>, extractor |-> "", source |-> <<>>,
    message |-> "", document_id |-> NoneId, sent |-> <<>>, remoteCalled |-> FALSE,
    documents |-> <<>> ]

\* No response yet: a chat request is being served
Pending == [NoResp EXCEPT !.op = "pending"]

IdleChat == [pc |-> "idle", message |-> "", document_id |-> NoneId, doc_text |-> <<>>]

\* An exception raised in a view: the view's own "except Exception" (src/bot.py
\* 119-122, 172-173) catches it when it is raised inside the try block;
\* only an exception that leaves the view reaches the registered error
\* handler handle_file_too_large (src/bot.py 66-69).
handle_file_too_large == 413

ExceptionStatus(exc, insideTry) ==
  IF insideTry THEN 500
  ELSE IF exc = "RequestEntityTooLarge" THEN handle_file_too_large
  ELSE 500

(***************************************************************************)
(* upload_document (src/bot.py 76-122)                                     *)
(***************************************************************************)
\* The selection without the precedence rule of lines 100-104
extract_dispatch_upload_only(filename, d) ==
  IF endswith(lower(filename), DOCX) THEN [extractor |-> "docx", path |-> filename]
  ELSE IF endswith(lower(filename), PDF) THEN [extractor |-> "pdf", path |-> filename]
  ELSE [extractor |-> "txt", path |-> filename]

\* src/bot.py 97-108: which extractor runs, and on which file.  d is the
\* upload directory after file.save.
extract_dispatch(filename, d) ==
  IF endswith(lower(filename), DOCX)
  THEN [extractor |-> "docx", path |-> filename]
  ELSE IF endswith(lower(filename), PDF)
  THEN LET base == SubSeq(filename, 1, Len(filename) - 4)
           docx_equiv == base \o DOCX
       IN IF Exists(d, docx_equiv)
          THEN [extractor |-> "docx", path |-> docx_equiv]
          ELSE [extractor |-> "pdf", path |-> filename]
  ELSE [extractor |-> "txt", path |-> filename]

extract(x, d) ==
  CASE x.extractor = "docx" -> extract_text_from_docx(d, x.path)
    [] x.extractor = "pdf" -> extract_text_from_pdf(d, x.path)
    [] OTHER -> extract_text_from_txt(d, x.path)

\* file.save(file_path)
Save(d, file_path, content) ==
  [n \in DOMAIN d \cup {file_path} |-> IF n = file_path THEN content ELSE d[n]]

UploadResp(file, length, saveOk) ==
  [NoResp EXCEPT !.op = "upload", !.hasFile = (file # NoPart), !.filename = file.filename,
                 !.content = file.content, !.length = length, !.saveOk = saveOk]

UploadFrame == UNCHANGED <<loaded_documents, disk, chatReq, firstKey, stored>>

upload_document(file, length, saveOk) ==
  /\ nUploads < MaxUploads
  /\ nUploads' = nUploads + 1
  /\ LET r == UploadResp(file, length, saveOk)
         fname == file.filename
         content == file.content
     IN
     IF length > MAX_CONTENT_LENGTH
     THEN \* request.files raises RequestEntityTooLarge at line 80, inside try
          /\ resp' = [r EXCEPT !.status = ExceptionStatus("RequestEntityTooLarge", TRUE),
                               !.error = "Internal server error"]
          /\ UploadFrame
     ELSE IF file = NoPart
     THEN /\ resp' = [r EXCEPT !.status = 400, !.error = "No file provided"]
          /\ UploadFrame
     ELSE IF fname = <<>>
     THEN /\ resp' = [r EXCEPT !.status = 400, !.error = "No file selected"]
          /\ UploadFrame
     ELSE IF ~allowed_file(fname)
     THEN /\ resp' = [r EXCEPT !.status = 400, !.error = "File type not allowed"]
          /\ UploadFrame
     ELSE IF ~saveOk
     THEN \* file.save raises OSError, inside try
          /\ resp' = [r EXCEPT !.status = ExceptionStatus("OSError", TRUE),
                               !.error = "Internal server error"]
          /\ UploadFrame
     ELSE LET filename == secure_filename(fname)
              d == Save(disk, filename, content)
              x == extract_dispatch(filename, d)
              doc_text == extract(x, d)
          IN /\ disk' = d
             /\ loaded_documents' = DictSet(loaded_documents, filename, doc_text)
             /\ resp' = [r EXCEPT !.status = 200, !.key = filename,
                                  !.extractor = x.extractor, !.source = x.path]
             /\ firstKey' = IF firstKey = NoneId THEN filename ELSE firstKey
             /\ stored' = stored \cup { <<filename, doc_text>> }
             /\ UNCHANGED chatReq

(***************************************************************************)
(* chat (src/bot.py 124-173)                                               *)
(***************************************************************************)
\* Python truthiness of document_id
Truthy(id) == id # NoneId /\ id # <<>>

\* Line 139 with the requested id ignored
test139_ignore_id(id, dct) == FALSE

\* line 139: document_id and document_id in loaded_documents
test139(id, dct) == Truthy(id) /\ id \in Keys(dct)

\* Line 141 without the emptiness test
test141_always(dct) == TRUE

\* line 141: elif loaded_documents
test141(dct) == dct # <<>>

\* line 143: list(loaded_documents.values())[0]
first_value(dct) == DictValues(dct)[1]

\* lines 148-173: the prompt carries doc_text; the remote call returns or
\* raises, and the raise is caught at line 172
SendResp(r, doc_text, apiOk) ==
  [r EXCEPT !.sent = doc_text, !.remoteCalled = TRUE,
            !.status = IF apiOk THEN 200 ELSE ExceptionStatus("APIError", TRUE),
            !.error = IF apiOk THEN "" ELSE "Upstream"]

\* loaded_documents[document_id] or [...][0] raised; caught at line 172
RaisedResp(r, exc) == [r EXCEPT !.status = ExceptionStatus(exc, TRUE), !.error = exc]

NoDocResp(r) == [r EXCEPT !.status = 400, !.error = "No document loaded"]

NoMessageResp(r) == [r EXCEPT !.status = 400, !.error = "No message provided"]

ChatRespFor(message, document_id) ==
  [NoResp EXCEPT !.op = "chat", !.message = message, !.document_id = document_id]

\* The whole handler, run without interruption
chat(message, document_id, apiOk) ==
  /\ chatReq.pc = "idle"
  /\ LET r == ChatRespFor(message, document_id)
         dct == loaded_documents
     IN resp' =
          IF message = "" THEN NoMessageResp(r)
          ELSE IF test139(document_id, dct)
          THEN IF document_id \in Keys(dct)
               THEN SendResp(r, DictGet(dct, document_id), apiOk)
               ELSE RaisedResp(r, "KeyError")
          ELSE IF test141(dct)
          THEN IF dct # <<>>
               THEN SendResp(r, first_value(dct), apiOk)
               ELSE RaisedResp(r, "IndexError")
          ELSE NoDocResp(r)
  /\ UNCHANGED <<loaded_documents, disk, chatReq, firstKey, stored, nUploads>>

(***************************************************************************)
(* chat served by a thread that other threads interleave with: one action  *)
(* per line of the context selection                                       *)
(***************************************************************************)

ChatResp == ChatRespFor(chatReq.message, chatReq.document_id)

ChatFrame == UNCHANGED <<loaded_documents, disk, firstKey, stored, nUploads>>

\* lines 128-135
chat_begin(message, document_id) ==
  /\ chatReq.pc = "idle"
  /\ IF message = ""
     THEN /\ resp' = NoMessageResp(ChatRespFor(message, document_id))
          /\ UNCHANGED chatReq
     ELSE /\ chatReq' = [pc |-> "l139", message |-> message,
                         document_id |-> document_id, doc_text |-> <<>>]
          /\ resp' = Pending
  /\ ChatFrame

\* line 139
chat_test139 ==
  /\ chatReq.pc = "l139"
  /\ chatReq' = [chatReq EXCEPT !.pc =
                   IF test139(chatReq.document_id, loaded_documents) THEN "l140" ELSE "l141"]
  /\ UNCHANGED resp
  /\ ChatFrame

\* line 140: loaded_documents[document_id]; KeyError is caught at line 172
chat_read140 ==
  /\ chatReq.pc = "l140"
  /\ IF chatReq.document_id \in Keys(loaded_documents)
     THEN /\ chatReq' = [chatReq EXCEPT !.pc = "l148",
                           !.doc_text = DictGet(loaded_documents, chatReq.document_id)]
          /\ UNCHANGED resp
     ELSE /\ resp' = RaisedResp(ChatResp, "KeyError")
          /\ chatReq' = IdleChat
  /\ ChatFrame

\* line 141
chat_test141 ==
  /\ chatReq.pc = "l141"
  /\ IF test141(loaded_documents)
     THEN /\ chatReq' = [chatReq EXCEPT !.pc = "l143"]
          /\ UNCHANGED resp
     ELSE /\ resp' = NoDocResp(ChatResp)
          /\ chatReq' = IdleChat
  /\ ChatFrame

\* line 143: IndexError on an empty dict is caught at line 172
chat_read143 ==
  /\ chatReq.pc = "l143"
  /\ IF loaded_documents # <<>>
     THEN /\ chatReq' = [chatReq EXCEPT !.pc = "l148",
                           !.doc_text = first_value(loaded_documents)]
          /\ UNCHANGED resp
     ELSE /\ resp' = RaisedResp(ChatResp, "IndexError")
          /\ chatReq' = IdleChat
  /\ ChatFrame

\* lines 148-173: the remote call succeeds or raises
chat_send148(apiOk) ==
  /\ chatReq.pc = "l148"
  /\ resp' = SendResp(ChatResp, chatReq.doc_text, apiOk)
  /\ chatReq' = IdleChat
  /\ ChatFrame

(***************************************************************************)
(* health, list_documents, clear_documents (src/bot.py 71-74, 175-185)     *)
(***************************************************************************)
health ==
  /\ resp' = [NoResp EXCEPT !.op = "health", !.status = 200]
  /\ UNCHANGED <<loaded_documents, disk, chatReq, firstKey, stored, nUploads>>

list_documents ==
  /\ resp' = [NoResp EXCEPT !.op = "documents", !.status = 200,
                            !.documents = DictKeys(loaded_documents)]
  /\ UNCHANGED <<loaded_documents, disk, chatReq, firstKey, stored, nUploads>>

clear_documents ==
  /\ loaded_documents' = DictClear(loaded_documents)
  /\ resp' = [NoResp EXCEPT !.op = "clear", !.status = 200]
  /\ firstKey' = NoneId
  /\ UNCHANGED <<disk, chatReq, stored, nUploads>>

(***************************************************************************)
(* Specifications                                                          *)
(***************************************************************************)
Init ==
  /\ loaded_documents = <<>>
  /\ disk = <<>>
  /\ chatReq = IdleChat
  /\ resp = NoResp
  /\ firstKey = NoneId
  /\ stored = {}
  /\ nUploads = 0

Upload == \E u \in UploadRequests : upload_document(u.file, u.length, u.saveOk)

Chat == \E c \in ChatRequests : chat(c.message, c.document_id, c.apiOk)

\* Requests are served one at a time, each from its first line to its
\* response.
Next ==
  \/ Upload
  \/ Chat
  \/ health
  \/ list_documents
  \/ clear_documents

Spec == Init /\ [][Next]_vars

\* Requests are served by concurrent threads: uploads, listings and clears
\* run between the lines of a chat request.
RaceUploadRequests ==
  [file : { File(<<"r">> \o DOCX, DocxBytes), File(<<"r">> \o DOCX, PdfBytes),
            File(<<"r">> \o PDF, PdfBytes) },
   length : {MAX_CONTENT_LENGTH}, saveOk : {TRUE}]

UploadRace == \E u \in RaceUploadRequests : upload_document(u.file, u.length, u.saveOk)

ChatBegin == \E message \in Messages, document_id \in DocIds : chat_begin(message, document_id)

ChatSend == \E apiOk \in BOOLEAN : chat_send148(apiOk)

NextRace ==
  \/ UploadRace
  \/ ChatBegin
  \/ chat_test139
  \/ chat_read140
  \/ chat_test141
  \/ chat_read143
  \/ ChatSend
  \/ health
  \/ list_documents
  \/ clear_documents

SpecRace == Init /\ [][NextRace]_vars

(***************************************************************************)
(* Vocabulary of the properties                                            *)
(***************************************************************************)
\* The text stored under key k
TextUnder(dct, k) == (CHOOSE e \in { dct[i] : i \in 1..Len(dct) } : e.key = k).text

Texts(dct) == { dct[i].text : i \in 1..Len(dct) }

BeginsWith(text, prefix) == Len(text) >= 1 /\ text[1] = prefix

\* The extension of a client-supplied file name, in lower case; <<>> when
\* the name has no dot
ExtOf(f) == IF HasDot(f) THEN lower(rsplit1(f)) ELSE <<>>

Disallowed(f) == ExtOf(f) \notin { <<"d","o","c","x">>, <<"t","x","t">>, <<"p","d","f">> }

WithinLimit(len) == len <= 50 * 1024 * 1024

\* The stem of a stored name that ends in a four-character extension
StemOf(k) == SubSeq(k, 1, Len(k) - 4)

EverUploaded(k) == \E p \in stored : p[1] = k

ChatAsked == resp.op = "chat" /\ resp.message # ""

NoDocumentLoaded == resp.status = 400 /\ resp.error = "No document loaded" /\ ~resp.remoteCalled

(***************************************************************************)
(* C1: in /api/chat with a non-empty message, a document_id that is a key  *)
(* of the store selects exactly the text stored under it; any other        *)
(* document_id (absent, empty, unknown) selects the text of one loaded     *)
(* document when the store is non-empty, and gets the 400 "No document     *)
(* loaded" error when it is empty.                                         *)
(***************************************************************************)
C1_ContextSelection ==
  ChatAsked =>
    IF resp.document_id # NoneId /\ resp.document_id \in Keys(loaded_documents)
    THEN resp.remoteCalled /\ resp.sent = TextUnder(loaded_documents, resp.document_id)
    ELSE IF loaded_documents # <<>>
    THEN resp.remoteCalled /\ resp.sent \in Texts(loaded_documents)
    ELSE NoDocumentLoaded

\* A chat that names the second of two documents whose texts differ
C1_Witness ==
  /\ ChatAsked
  /\ resp.status = 200
  /\ Len(loaded_documents) >= 2
  /\ resp.document_id = loaded_documents[2].key
  /\ resp.sent = loaded_documents[2].text
  /\ loaded_documents[2].text # loaded_documents[1].text

(***************************************************************************)
(* C2: while no upload has succeeded since the start or since the last     *)
(* /api/clear, the store is empty; and while the store is empty            *)
(* /api/documents lists nothing and every /api/chat with a non-empty       *)
(* message, whatever its document_id, returns the 400 "No document loaded" *)
(* error without calling the remote API.                                   *)
(***************************************************************************)
C2_EmptyStore ==
  /\ firstKey = NoneId => loaded_documents = <<>>
  /\ loaded_documents = <<>> =>
       /\ resp.op = "documents" => resp.documents = <<>>
       /\ ChatAsked => NoDocumentLoaded

\* After an upload of r.docx and a clear, a chat that names r.docx is refused
C2_Witness ==
  /\ ChatAsked
  /\ NoDocumentLoaded
  /\ loaded_documents = <<>>
  /\ resp.document_id = <<"r">> \o DOCX
  /\ EverUploaded(<<"r">> \o DOCX)

(***************************************************************************)
(* C3: an upload whose file name has no extension, or an extension outside *)
(* {docx, txt, pdf} compared case-insensitively, leaves the store          *)
(* unchanged (same keys, same texts, same order) in every reachable state, *)
(* and returns 400 whenever the request is within the 50 MiB limit, that   *)
(* is, whenever it reaches the validation of upload_document (requests     *)
(* over the limit are the subject of C4).                                  *)
(***************************************************************************)
C3_DisallowedExtension ==
  [][ (resp'.op = "upload" /\ resp'.hasFile /\ Disallowed(resp'.filename))
        => /\ loaded_documents' = loaded_documents
           /\ WithinLimit(resp'.length) => resp'.status = 400 ]_vars

\* r.EXE is refused while a document is loaded
C3_Witness ==
  /\ resp.op = "upload"
  /\ resp.filename = <<"r", ".", "E", "X", "E">>
  /\ WithinLimit(resp.length)
  /\ resp.status = 400
  /\ resp.error = "File type not allowed"
  /\ loaded_documents # <<>>

(***************************************************************************)
(* C4: an upload request whose payload exceeds 50 MiB is answered with     *)
(* status 413 and adds no entry to the store.                              *)
(***************************************************************************)
C4_PayloadTooLarge ==
  [][ (resp'.op = "upload" /\ ~WithinLimit(resp'.length))
        => (resp'.status = 413 /\ Keys(loaded_documents') \subseteq Keys(loaded_documents)) ]_vars

(***************************************************************************)
(* C5: a successful upload stored under a name S.pdf writes the uploaded   *)
(* bytes to S.pdf in the upload directory; if S.docx was uploaded          *)
(* successfully at any earlier time, the text stored under S.pdf is the    *)
(* word-processing extraction of the file S.docx in the upload directory;  *)
(* if the upload directory holds no S.docx, it is the PDF extraction of    *)
(* the uploaded file.                                                      *)
(***************************************************************************)
C5_FormatPrecedence ==
  (resp.op = "upload" /\ resp.status = 200 /\ endswith(resp.key, PDF)) =>
    LET docx == StemOf(resp.key) \o DOCX
        text == TextUnder(loaded_documents, resp.key)
    IN /\ resp.key \in Keys(loaded_documents)
       /\ Exists(disk, resp.key) /\ disk[resp.key] = resp.content
       /\ EverUploaded(docx) =>
            Exists(disk, docx) /\ text = extract_text_from_docx(disk, docx)
       /\ ~Exists(disk, docx) =>
            text = extract_text_from_pdf(disk, resp.key)

\* r.pdf with PDF bytes is uploaded after r.docx was uploaded and the store
\* was cleared: the text under r.pdf is the paragraphs of r.docx
C5_Witness ==
  /\ resp.op = "upload" /\ resp.status = 200
  /\ resp.key = <<"r">> \o PDF
  /\ resp.content = PdfBytes
  /\ <<"r">> \o DOCX \notin Keys(loaded_documents)
  /\ EverUploaded(<<"r">> \o DOCX)
  /\ TextUnder(loaded_documents, resp.key) = <<"paragraphs", "d1">>
  /\ disk[resp.key] = PdfBytes

(***************************************************************************)
(* C6, as claimed: an upload named *.pdf whose bytes are not a PDF returns  *)
(* 200 and the text stored under its key begins with "Error reading PDF:", *)
(* in every state of the store and of the upload directory.  Stated here   *)
(* on the uploads that returned 200 and are stored under a name ending in  *)
(* .pdf, which the claim covers.                                           *)
(***************************************************************************)
CorruptPdfUpload ==
  /\ resp.op = "upload"
  /\ resp.hasFile
  /\ ExtOf(resp.filename) = <<"p","d","f">>
  /\ resp.content.kind # "pdf"

C6_Original ==
  (CorruptPdfUpload /\ resp.status = 200 /\ endswith(lower(resp.key), PDF)) =>
    BeginsWith(TextUnder(loaded_documents, resp.key), "Error reading PDF:")

(***************************************************************************)
(* C6, amended: an unparseable *.pdf upload that is within the size limit  *)
(* and is saved returns 200 and is stored; when its stored name ends in    *)
(* .pdf, the stored text begins with "Error reading PDF:" if the upload    *)
(* directory holds no file with the same stem and the extension .docx, and *)
(* is the word-processing extraction of that file if it does.              *)
(***************************************************************************)
C6_Amended ==
  (CorruptPdfUpload /\ WithinLimit(resp.length) /\ resp.saveOk) =>
    /\ resp.status = 200
    /\ resp.key \in Keys(loaded_documents)
    /\ endswith(lower(resp.key), PDF) =>
         LET docx == StemOf(resp.key) \o DOCX
             text == TextUnder(loaded_documents, resp.key)
         IN IF Exists(disk, docx)
            THEN text = extract_text_from_docx(disk, docx)
            ELSE BeginsWith(text, "Error reading PDF:")

\* r.pdf with text bytes is uploaded while r.TXT is loaded and there is no
\* r.docx
C6_Witness ==
  /\ CorruptPdfUpload
  /\ resp.status = 200
  /\ resp.key = <<"r">> \o PDF
  /\ ~Exists(disk, <<"r">> \o DOCX)
  /\ <<"r">> \o UPPER_TXT \in Keys(loaded_documents)
  /\ TextUnder(loaded_documents, resp.key) = ErrPdf

(***************************************************************************)
(* C7: a key enters the store only by an upload of that key that returns   *)
(* 200; the text under a key changes only by such an upload; a key leaves  *)
(* the store only by /api/clear; /api/chat, /api/documents, /api/health    *)
(* and every upload that returns an error leave the store unchanged.       *)
(***************************************************************************)
GoodUploadOf(k) == resp'.op = "upload" /\ resp'.status = 200 /\ resp'.key = k

C7_Lifecycle ==
  [][ /\ \A k \in Keys(loaded_documents') \ Keys(loaded_documents) : GoodUploadOf(k)
      /\ \A k \in Keys(loaded_documents') \cap Keys(loaded_documents) :
           TextUnder(loaded_documents', k) # TextUnder(loaded_documents, k) => GoodUploadOf(k)
      /\ \A k \in Keys(loaded_documents) \ Keys(loaded_documents') : resp'.op = "clear"
      /\ ( \/ resp'.op \in {"chat", "documents", "health"}
           \/ (resp'.op = "upload" /\ resp'.status # 200) )
           => loaded_documents' = loaded_documents ]_vars

\* The first of two loaded documents has just been uploaded again with
\* another text
C7_Witness ==
  /\ resp.op = "upload" /\ resp.status = 200
  /\ Len(loaded_documents) >= 2
  /\ resp.key = loaded_documents[1].key
  /\ Cardinality({ p \in stored : p[1] = resp.key }) >= 2

(***************************************************************************)
(* C8: with uploads and clears running between the lines of a chat         *)
(* request, a chat with a non-empty message either sends a complete text   *)
(* that some upload stored under a key, or fails with the 400 "No document *)
(* loaded" error, and ends in no other way.                                *)
(***************************************************************************)
C8_RaceOutcomes ==
  ChatAsked =>
    \/ resp.remoteCalled /\ \E p \in stored : p[2] = resp.sent
    \/ NoDocumentLoaded

(***************************************************************************)
(* C9: every upload that passes validation is extracted by the extractor   *)
(* of the extension that validation accepted on the client-supplied file   *)
(* name: docx by the word-processing extractor, txt by the plain-text      *)
(* extractor, pdf by the PDF extractor or, under the precedence rule, by   *)
(* the word-processing extractor.                                          *)
(***************************************************************************)
C9_ExtractorMatchesExtension ==
  (resp.op = "upload" /\ resp.status = 200) =>
    CASE ExtOf(resp.filename) = <<"d","o","c","x">> -> resp.extractor = "docx"
      [] ExtOf(resp.filename) = <<"t","x","t">> -> resp.extractor = "txt"
      [] ExtOf(resp.filename) = <<"p","d","f">> -> resp.extractor \in {"pdf", "docx"}
      [] OTHER -> FALSE

(***************************************************************************)
(* C10: between two clears the key inserted first since the last clear     *)
(* stays in the store, and a chat whose document_id is absent or is no key *)
(* of the store sends the text currently stored under that key, whatever   *)
(* was uploaded or uploaded again after it.                                *)
(***************************************************************************)
C10_FallbackStability ==
  /\ firstKey # NoneId => firstKey \in Keys(loaded_documents)
  /\ ( /\ ChatAsked
       /\ loaded_documents # <<>>
       /\ (resp.document_id = NoneId \/ resp.document_id \notin Keys(loaded_documents)) )
       => /\ firstKey # NoneId
          /\ resp.remoteCalled
          /\ resp.sent = TextUnder(loaded_documents, firstKey)

\* r.docx, then r.pdf (which took the paragraphs of r.docx), then r.docx
\* again with bytes that are no document: a chat without document_id sends
\* the new text of r.docx
C10_Witness ==
  /\ ChatAsked
  /\ resp.document_id = NoneId
  /\ Len(loaded_documents) = 2
  /\ loaded_documents[1] = [key |-> <<"r">> \o DOCX, text |-> ErrDoc]
  /\ loaded_documents[2] = [key |-> <<"r">> \o PDF, text |-> <<"paragraphs", "d1">>]
  /\ firstKey = <<"r">> \o DOCX
  /\ resp.sent = ErrDoc

====
